---- MODULE Spec2Model ----
(***************************************************************************)
(* Colorspace resolution of source/pdf/pdf-colorspace.c as a state machine. *)
(*                                                                         *)
(* A session is a document's object graph (graph), the store of resolved   *)
(* colorspaces keyed by object (cache), the recursion marks (marked) and   *)
(* the colorspace heap with reference counts (heap).  A worker runs         *)
(* pdf_load_colorspace; its nested calls are kept as a stack of builder     *)
(* frames (stack) and a control record (ctl) that says whether a call is    *)
(* being entered, a value is being returned or an exception is unwinding.   *)
(***************************************************************************)
EXTENDS Integers, Sequences, FiniteSets, TLC

\* ------------------------------------------------------------------ bounds

\* Number of array / indirect objects in the document graph.
NumNodes == 3

Nodes == 1..NumNodes

\* Workers that may exist; a session uses the subset `workers`.
Workers == {1, 2}

\* ------------------------------------------------------- program constants

NULL == 0

FZ_MAX_COLORS == 32

\* ------------------------------------------------------------ name objects

\* Name objects are small constants with a fixed table; a name's identity is
\* its table index.  In the model the name with index i is the object -i.
NameTable ==
    << "Pattern", "G", "RGB", "CMYK", "DeviceGray", "DeviceRGB", "DeviceCMYK",
       "CalGray", "CalRGB", "CalCMYK", "Lab", "ICCBased", "Indexed", "I",
       "Separation", "DeviceN", "Bogus" >>

NameObjs == { -i : i \in 1..Len(NameTable) }

PDF_NAME(s) == -(CHOOSE i \in 1..Len(NameTable) : NameTable[i] = s)

\* ------------------------------------------------------------- descriptors

\* Every object of the graph is a record of the attributes the code reads:
\*   shape  "Name" | "Array" | "Other"
\*   fam    the name (shape Name) or the array's first element when that is a
\*          name ("" when it is not)
\*   sub    the nested colorspace object: [ICCBased dict]/Alternate, the base
\*          of Indexed (array[1]) and Separation/DeviceN (array[2]), the
\*          argument of Pattern (array[1]); NULL when absent
\*   N      [ICCBased dict]/N as pdf_to_int gives it
\*   names  length of array[1] of Separation/DeviceN when it is an array, -1
\*          when it is not an array
\*   high   array[2] of Indexed as pdf_to_int gives it
\*   lk,len array[3] of Indexed: "null", "str" (direct string of len bytes),
\*          "istr" (indirect reference to a string), "stream" (indirect
\*          reference to a stream that delivers len bytes), "badstream"
\*          (indirect reference whose stream cannot be opened), "int"
\*   tint   array[3] of Separation/DeviceN: "ok" when pdf_load_function
\*          loads it, "bad" when it throws
Plain ==
    [shape |-> "Other", fam |-> "", sub |-> NULL, N |-> 0, names |-> -1,
     high |-> 0, lk |-> "null", len |-> 0, tint |-> "ok"]

DName(s) == [Plain EXCEPT !.shape = "Name", !.fam = s]

DArr(s) == [Plain EXCEPT !.shape = "Array", !.fam = s]

DIcc(n, alt) == [DArr("ICCBased") EXCEPT !.N = n, !.sub = alt]

DIdx(f, b, h, k, l) == [DArr(f) EXCEPT !.sub = b, !.high = h, !.lk = k, !.len = l]

DSep(f, nm, b, t) == [DArr(f) EXCEPT !.names = nm, !.sub = b, !.tint = t]

DPat(u) == [DArr("Pattern") EXCEPT !.sub = u]

\* ------------------------------------------------------------- colorspaces

\* heap[i] is colorspace i.  refs is its reference count: -1 for the static
\* device colorspaces, 0 once freed.  conv names its to_rgb function; src is
\* the object whose builder made it.
Dev(nm, k) ==
    [name |-> nm, n |-> k, refs |-> -1, conv |-> "device", base |-> NULL,
     high |-> 0, lookup |-> << >>, fin |-> 0, fout |-> 0, src |-> NULL]

fz_device_gray == 1

fz_device_rgb == 2

fz_device_cmyk == 3

fz_device_lab == 4

InitHeap ==
    << Dev("DeviceGray", 1), Dev("DeviceRGB", 3), Dev("DeviceCMYK", 4),
       Dev("Lab", 3) >>

\* The heap is full when one more colorspace than the graph has nodes was built.
MaxObjs == Len(InitHeap) + NumNodes + 1

\* ---------------------------------------------------- reference counting

Live(h, c) == c # NULL /\ h[c].refs # 0

\* fz_keep_colorspace: static colorspaces (refs < 0) are not counted.
fz_keep_colorspace(h, c) ==
    IF c = NULL \/ h[c].refs <= 0 THEN h ELSE [h EXCEPT ![c].refs = @ + 1]

\* fz_drop_colorspace: the last reference frees the colorspace, and its free
\* function (free_separation, free_indexed) drops the base it embeds.
RECURSIVE fz_drop_colorspace(_, _)
fz_drop_colorspace(h, c) ==
    IF c = NULL \/ h[c].refs <= 0 THEN h
    ELSE IF h[c].refs > 1 THEN [h EXCEPT ![c].refs = @ - 1]
    ELSE fz_drop_colorspace([h EXCEPT ![c].refs = 0], h[c].base)

\* Tint functions and lookup tables freed between heap h and heap h2: those
\* owned by the colorspaces that died.
Died(h, h2, conv) ==
    Cardinality({ i \in DOMAIN h : h[i].refs > 0 /\ h2[i].refs = 0
                                     /\ h[i].conv = conv /\ (conv = "indexed_to_rgb" => Len(h[i].lookup) > 0) })

AfterDrop(h, lv, c) ==
    LET h2 == fz_drop_colorspace(h, c)
    IN  [heap |-> h2,
         live |-> [funcs |-> lv.funcs - Died(h, h2, "separation_to_rgb"),
                   bufs  |-> lv.bufs - Died(h, h2, "indexed_to_rgb")]]

\* ------------------------------------------------------ outcome of a build

\* What a builder hands back: a colorspace or an error, with the heap and the
\* allocation counts it leaves behind.
Built(h, lv, c) == [ok |-> TRUE, cs |-> c, err |-> "", heap |-> h, live |-> lv]

Failed(h, lv, e) == [ok |-> FALSE, cs |-> NULL, err |-> e, heap |-> h, live |-> lv]

\* The result of a nested pdf_load_colorspace as the builder above it sees it.
NoSub == [k |-> "none", cs |-> NULL, err |-> ""]

SubOk(c) == [k |-> "ok", cs |-> c, err |-> ""]

SubErr(e) == [k |-> "err", cs |-> NULL, err |-> e]

\* ---------------------------------------------------------------- ICCBased

\* Variant of IccDefault: the cases for 3 and 4 components are exchanged.
IccDefaultSwapped(n) ==
    CASE n = 1 -> fz_device_gray
      [] n = 3 -> fz_device_cmyk
      [] n = 4 -> fz_device_rgb
      [] OTHER -> NULL

\* The switch on n that ends load_icc_based; NULL stands for the fz_throw.
IccDefault(n) ==
    CASE n = 1 -> fz_device_gray
      [] n = 3 -> fz_device_rgb
      [] n = 4 -> fz_device_cmyk
      [] OTHER -> NULL

IccFallback(h, lv, n) ==
    IF IccDefault(n) # NULL THEN Built(h, lv, IccDefault(n))
    ELSE Failed(h, lv, "Syntax")

\* Variant of load_icc_based: the Alternate is returned whatever its size.
load_icc_based_unsized(h, lv, n, sub) ==
    IF sub.k = "ok" THEN Built(h, lv, sub.cs) ELSE IccFallback(h, lv, n)

\* load_icc_based once the nested pdf_load_colorspace(Alternate) came back
\* with sub: a colorspace of the wrong size is dropped and the throw is
\* caught, as is every exception of the nested call.
load_icc_based(h, lv, n, sub) ==
    IF sub.k = "ok" /\ h[sub.cs].n = n THEN Built(h, lv, sub.cs)
    ELSE IF sub.k = "ok"
    THEN LET r == AfterDrop(h, lv, sub.cs) IN IccFallback(r.heap, r.live, n)
    ELSE IccFallback(h, lv, n)

\* ------------------------------------------------------ Separation, DeviceN

SepN(D) == IF D.names >= 0 THEN D.names ELSE 1

\* Variant of TooManyComponents: the limit is taken one too high.
TooManyComponentsOffByOne(n) == n > FZ_MAX_COLORS + 1

\* The test load_separation makes before it resolves the base.
TooManyComponents(n) == n > FZ_MAX_COLORS

\* Variant of load_separation_catch: the base is not dropped.
load_separation_catch_leak(h, lv, base, tint, e) ==
    Failed(h, [lv EXCEPT !.funcs = @ - tint], e)

\* The fz_catch of load_separation.
load_separation_catch(h, lv, base, tint, e) ==
    LET r == AfterDrop(h, lv, base)
    IN  Failed(r.heap, [r.live EXCEPT !.funcs = @ - tint], e)

\* Variant of load_separation: the tint function is loaded with the numbers
\* of inputs and outputs exchanged.
load_separation_swapped(h, lv, o, D, base, oom) ==
    LET n == SepN(D)
        lv1 == [lv EXCEPT !.funcs = @ + 1]
        cs == [name |-> IF n = 1 THEN "Separation" ELSE "DeviceN", n |-> n,
               refs |-> 1, conv |-> "separation_to_rgb", base |-> base,
               high |-> 0, lookup |-> << >>, fin |-> h[base].n, fout |-> n,
               src |-> o]
    IN  IF D.tint # "ok" THEN load_separation_catch(h, lv, base, 0, "ResourceLoad")
        ELSE IF oom THEN load_separation_catch(h, lv1, base, 1, "Memory")
        ELSE Built(Append(h, cs), lv1, Len(h) + 1)

\* load_separation from the return of pdf_load_colorspace(baseobj): oom says
\* whether fz_malloc_struct or fz_new_colorspace runs out of memory.
load_separation(h, lv, o, D, base, oom) ==
    LET n == SepN(D)
        lv1 == [lv EXCEPT !.funcs = @ + 1]
        cs == [name |-> IF n = 1 THEN "Separation" ELSE "DeviceN", n |-> n,
               refs |-> 1, conv |-> "separation_to_rgb", base |-> base,
               high |-> 0, lookup |-> << >>, fin |-> n, fout |-> h[base].n,
               src |-> o]
    IN  IF D.tint # "ok" THEN load_separation_catch(h, lv, base, 0, "ResourceLoad")
        ELSE IF oom THEN load_separation_catch(h, lv1, base, 1, "Memory")
        ELSE Built(Append(h, cs), lv1, Len(h) + 1)

\* pdf_is_tint_colorspace: the colorspace converts with separation_to_rgb.
pdf_is_tint_colorspace(h, c) == h[c].conv = "separation_to_rgb"

\* ----------------------------------------------------------------- Indexed

fz_clampi(i, lo, hi) == IF i > hi THEN hi ELSE IF i < lo THEN lo ELSE i

\* A byte no source delivers stands for memory that was never written.
Garbage == 2 ^ 8

fz_malloc_array(n) == [j \in 1..n |-> Garbage]

\* Contents of a string object and of a stream; no byte of either is zero.
StrByte(i) == ((i * 3) % 255) + 1

StreamByte(i) == ((i * 5) % 255) + 1

pdf_is_string(D) == D.lk \in {"str", "istr"}

pdf_is_indirect(D) == D.lk \in {"istr", "stream", "badstream"}

\* The loop that copies the first n bytes of the string.
CopyString(buf, n) == [j \in 1..n |-> StrByte(j - 1)]

\* Variant of ReadStream: the rest of the table is left as allocated.
ReadStreamNoFill(buf, avail, n) ==
    LET i == IF avail < n THEN avail ELSE n
    IN  [j \in 1..n |-> IF j <= i THEN StreamByte(j - 1) ELSE buf[j]]

\* fz_read of a stream that holds avail bytes, then the memset of the rest.
ReadStream(buf, avail, n) ==
    LET i == IF avail < n THEN avail ELSE n
    IN  [j \in 1..n |-> IF j <= i THEN StreamByte(j - 1) ELSE 0]

\* Variant of ClampHigh: the value is used as it is.
ClampHighOff(x) == x

\* high as load_indexed clamps it.
ClampHigh(x) == fz_clampi(x, 0, 255)

\* The fz_catch of load_indexed.
load_indexed_catch(h, lv, base, buf, e) ==
    LET r == AfterDrop(h, lv, base)
    IN  Failed(r.heap, [r.live EXCEPT !.bufs = @ - buf], e)

\* load_indexed from the return of pdf_load_colorspace(baseobj): oom is
\* "array" when fz_malloc_array fails, "cs" when fz_new_indexed_colorspace
\* does, "no" otherwise.
load_indexed(h, lv, o, D, base, oom) ==
    LET high == ClampHigh(D.high)
        n == h[base].n * (high + 1)
        got == IF n > 0 THEN 1 ELSE 0
        lv1 == [lv EXCEPT !.bufs = @ + got]
        buf == fz_malloc_array(n)
        cs(lookup) ==
            [name |-> "Indexed", n |-> 1, refs |-> 1, conv |-> "indexed_to_rgb",
             base |-> base, high |-> high, lookup |-> lookup, fin |-> 0,
             fout |-> 0, src |-> o]
        finish(lookup) ==
            IF oom = "cs" THEN load_indexed_catch(h, lv1, base, got, "Memory")
            ELSE Built(Append(h, cs(lookup)), lv1, Len(h) + 1)
    IN  IF oom = "array" /\ n > 0 THEN load_indexed_catch(h, lv, base, 0, "Memory")
        ELSE IF pdf_is_string(D) /\ D.len >= n THEN finish(CopyString(buf, n))
        ELSE IF pdf_is_indirect(D)
        THEN IF D.lk = "stream" THEN finish(ReadStream(buf, D.len, n))
             ELSE load_indexed_catch(h, lv1, base, got, "ResourceLoad")
        ELSE load_indexed_catch(h, lv1, base, got, "Syntax")

\* ------------------------------------------------------------------- state

VARIABLES
    graph,    \* Nodes -> descriptor: the document, read only
    mayfail,  \* whether allocations of this session may run out of memory
    workers,  \* the workers that use the session
    cache,    \* object -> colorspace stored for it, NULL when none
    marked,   \* objects whose mark flag is set
    heap,     \* the colorspaces, by id
    live,     \* tint functions and lookup tables allocated and not freed
    stack,    \* per worker: the builders waiting for a nested call, innermost last
    ctl,      \* per worker: what the worker does next
    top,      \* per worker: its top-level call and what came of it
    closed    \* the session was torn down

vars == << graph, mayfail, workers, cache, marked, heap, live, stack, ctl, top, closed >>

Objs == Nodes \cup NameObjs

\* The attributes of object o.
Desc(o) ==
    IF o \in Nodes THEN graph[o]
    ELSE IF o \in NameObjs THEN DName(NameTable[-o])
    ELSE Plain

pdf_is_name(o) == Desc(o).shape = "Name"

pdf_is_array(o) == Desc(o).shape = "Array"

\* -------------------------------------------------------- store and marks

pdf_find_item(o) == IF o \in DOMAIN cache THEN cache[o] ELSE NULL

pdf_store_item(c, o, cs) == [c EXCEPT ![o] = cs]

pdf_obj_marked(o) == o \in marked

pdf_mark_obj(m, o) == m \cup {o}

pdf_unmark_obj(m, o) == m \ {o}

\* ----------------------------------------------------------------- control

Idle == [k |-> "idle", obj |-> NULL, cs |-> NULL, err |-> "", hit |-> FALSE, sub |-> NoSub]

DoCall(o) == [Idle EXCEPT !.k = "call", !.obj = o]

DoBuild(o) == [Idle EXCEPT !.k = "build", !.obj = o]

ImpRet(o, c, s) == [Idle EXCEPT !.k = "impret", !.obj = o, !.cs = c, !.sub = s]

Ret(o, c, h, s) == [Idle EXCEPT !.k = "ret", !.obj = o, !.cs = c, !.hit = h, !.sub = s]

Throw(o, e, s) == [Idle EXCEPT !.k = "throw", !.obj = o, !.err = e, !.sub = s]

NoTop ==
    [k |-> "none", obj |-> NULL, fresh |-> FALSE, steps |-> 0, cs |-> NULL,
     err |-> "", hit |-> FALSE, sub |-> NoSub, held |-> FALSE]

Tick(w) == [top EXCEPT ![w].steps = @ + 1]

\* The outcomes allocation can have in this session.
OomSep == IF mayfail THEN BOOLEAN ELSE {FALSE}

OomIdx == IF mayfail THEN {"no", "array", "cs"} ELSE {"no"}

\* ---------------------------------------------------------------- dispatch

\* Variant of NameCS: the name branch also takes the calibrated families and
\* Lab, as the array branch does.
NameCSCalibrated(s) ==
    CASE s \in {"Pattern", "G", "DeviceGray", "CalGray"} -> fz_device_gray
      [] s \in {"RGB", "DeviceRGB", "CalRGB"} -> fz_device_rgb
      [] s \in {"CMYK", "DeviceCMYK", "CalCMYK"} -> fz_device_cmyk
      [] s = "Lab" -> fz_device_lab
      [] OTHER -> NULL

\* pdf_load_colorspace_imp on a name object; NULL stands for the fz_throw.
NameCS(s) ==
    CASE s \in {"Pattern", "G", "DeviceGray"} -> fz_device_gray
      [] s \in {"RGB", "DeviceRGB"} -> fz_device_rgb
      [] s \in {"CMYK", "DeviceCMYK"} -> fz_device_cmyk
      [] OTHER -> NULL

\* Variant of AliasCS: Lab is answered with the colorspace of CalRGB.
AliasCSLabAsRgb(s) ==
    CASE s \in {"G", "DeviceGray", "CalGray"} -> fz_device_gray
      [] s \in {"RGB", "DeviceRGB", "CalRGB", "Lab"} -> fz_device_rgb
      [] s \in {"CMYK", "DeviceCMYK", "CalCMYK"} -> fz_device_cmyk
      [] OTHER -> NULL

\* pdf_load_colorspace_imp on an array by its first name: the families that
\* return a device colorspace at once; NULL sends the array to the fz_try.
AliasCS(s) ==
    CASE s \in {"G", "DeviceGray", "CalGray"} -> fz_device_gray
      [] s \in {"RGB", "DeviceRGB", "CalRGB"} -> fz_device_rgb
      [] s \in {"CMYK", "DeviceCMYK", "CalCMYK"} -> fz_device_cmyk
      [] s = "Lab" -> fz_device_lab
      [] OTHER -> NULL

\* Variant of CacheLookup: the lookup never finds anything.
CacheLookupMiss(o) == NULL

\* The first test of pdf_load_colorspace: the stored colorspace, if any.
CacheLookup(o) == pdf_find_item(o)

\* Variant of Recursion: the mark is not tested.
RecursionUntested(o) == FALSE

\* The first test of pdf_load_colorspace_imp.
Recursion(o) == pdf_obj_marked(o)

\* Variant of RecursionError: the throw is worded as the syntax errors are.
RecursionErrorSyntax == "Syntax"

\* The error of the throw that follows the test.
RecursionError == "Cycle"

\* The C stack is finite: a call nested deeper than MaxDepth overflows it and
\* the call tree ends with the error "Crash".  No document of NumNodes nodes
\* nests that deep unless recursion goes undetected.
MaxDepth == NumNodes + 3

\* Variant of imp_mark: the mark is put on the family name, array[0].
imp_mark_name(m, o) == pdf_mark_obj(m, PDF_NAME(Desc(o).fam))

\* Variant of imp_mark: the array is not marked.
imp_mark_skipped(m, o) == m

\* The pdf_mark_obj that opens the fz_try of pdf_load_colorspace_imp.
imp_mark(m, o) == pdf_mark_obj(m, o)

\* Variant of imp_always: the mark stays set.
imp_always_skipped(m, o) == m

\* The fz_always of pdf_load_colorspace_imp.
imp_always(m, o) == pdf_unmark_obj(m, o)

\* Variant of imp_catch: the Pattern branch swallows the exception too and
\* answers with the colorspace of its no-argument case.
imp_catch_pattern(fam, h, lv, n, e) ==
    IF fam = "ICCBased" THEN load_icc_based(h, lv, n, SubErr(e))
    ELSE IF fam = "Pattern" THEN Built(h, lv, fz_device_gray)
    ELSE Failed(h, lv, e)

\* An exception of the nested call reaches the builder of family fam: only
\* load_icc_based catches it, the others clean up and rethrow.
imp_catch(fam, h, lv, n, e) ==
    IF fam = "ICCBased" THEN load_icc_based(h, lv, n, SubErr(e))
    ELSE Failed(h, lv, e)

\* Variant of imp_pattern: the array with an argument is answered like the
\* array without one.
imp_pattern_gray(h, lv, c) == Built(h, lv, fz_device_gray)

\* The Pattern branch after its nested pdf_load_colorspace(pobj) returned c:
\* c is the colorspace of the array.
imp_pattern(h, lv, c) == Built(h, lv, c)

\* Variant of LoadThrow: the failed object is stored with a default colorspace.
LoadThrowStoresDefault(c, o) ==
    IF o \in DOMAIN c THEN pdf_store_item(c, o, fz_device_gray) ELSE c

\* pdf_load_colorspace when pdf_load_colorspace_imp throws: nothing is stored.
LoadThrow(c, o) == c

\* A builder is done with outcome r: the mark is cleared, the frame is popped
\* and the outcome goes to the pdf_load_colorspace that called it.
Leave(w, o, r, s) ==
    /\ marked' = imp_always(marked, o)
    /\ stack' = [stack EXCEPT ![w] = SubSeq(@, 1, Len(@) - 1)]
    /\ heap' = r.heap
    /\ live' = r.live
    /\ cache' = IF r.ok THEN cache ELSE LoadThrow(cache, o)
    /\ ctl' = [ctl EXCEPT ![w] = IF r.ok THEN ImpRet(o, r.cs, s) ELSE Throw(o, r.err, s)]

\* ----------------------------------------------------------------- actions

\* A caller asks for the colorspace of object o.
Call(w, o) ==
    /\ ~closed
    /\ ctl[w].k = "idle"
    /\ ~top[w].held
    /\ Len(heap) < MaxObjs
    /\ ctl' = [ctl EXCEPT ![w] = DoCall(o)]
    /\ top' = [top EXCEPT ![w] = [NoTop EXCEPT !.k = "run", !.obj = o,
                                    !.fresh = \A x \in DOMAIN cache : cache[x] = NULL]]
    /\ UNCHANGED << graph, mayfail, workers, cache, marked, heap, live, stack, closed >>

\* pdf_load_colorspace up to the call of a builder: the store lookup, then
\* pdf_load_colorspace_imp's recursion test and its dispatch on the object.
LoadColorspace(w) ==
    LET o == ctl[w].obj
        D == Desc(o)
        hit == CacheLookup(o)
        now(c) == /\ ctl' = [ctl EXCEPT ![w] = c]
                  /\ cache' = IF c.k = "throw" THEN LoadThrow(cache, o) ELSE cache
                  /\ UNCHANGED << marked, stack >>
    IN  /\ ctl[w].k = "call"
        /\ top' = Tick(w)
        /\ IF Len(stack[w]) >= MaxDepth
           THEN /\ heap' = heap
                /\ now(Throw(o, "Crash", NoSub))
           ELSE IF hit # NULL
           THEN /\ heap' = fz_keep_colorspace(heap, hit)
                /\ now(Ret(o, hit, TRUE, NoSub))
           ELSE /\ heap' = heap
                /\ IF Recursion(o) THEN now(Throw(o, RecursionError, NoSub))
                   ELSE IF pdf_is_name(o)
                   THEN IF NameCS(D.fam) # NULL THEN now(ImpRet(o, NameCS(D.fam), NoSub))
                        ELSE now(Throw(o, "Syntax", NoSub))
                   ELSE IF pdf_is_array(o) /\ D.fam # ""
                   THEN IF AliasCS(D.fam) # NULL THEN now(ImpRet(o, AliasCS(D.fam), NoSub))
                        ELSE /\ marked' = imp_mark(marked, o)
                             /\ stack' = [stack EXCEPT ![w] = Append(@, o)]
                             /\ ctl' = [ctl EXCEPT ![w] = DoBuild(o)]
                             /\ cache' = cache
                   ELSE now(Throw(o, "Syntax", NoSub))
        /\ UNCHANGED << graph, mayfail, workers, live, closed >>

\* The builder of a marked array runs up to its nested pdf_load_colorspace,
\* or to its end when it makes none.
Build(w) ==
    LET o == ctl[w].obj
        D == Desc(o)
        nested == /\ ctl' = [ctl EXCEPT ![w] = DoCall(D.sub)]
                  /\ UNCHANGED << marked, stack, heap, live, cache >>
    IN  /\ ctl[w].k = "build"
        /\ top' = Tick(w)
        /\ CASE D.fam = "ICCBased" ->
                  IF D.sub # NULL THEN nested
                  ELSE Leave(w, o, IccFallback(heap, live, D.N), NoSub)
             [] D.fam \in {"Indexed", "I"} -> nested
             [] D.fam \in {"Separation", "DeviceN"} ->
                  IF TooManyComponents(SepN(D))
                  THEN Leave(w, o, Failed(heap, live, "ComponentLimit"), NoSub)
                  ELSE nested
             [] D.fam = "Pattern" ->
                  IF D.sub = NULL THEN Leave(w, o, Built(heap, live, fz_device_gray), NoSub)
                  ELSE nested
             [] OTHER -> Leave(w, o, Failed(heap, live, "Syntax"), NoSub)
        /\ UNCHANGED << graph, mayfail, workers, closed >>

\* The nested pdf_load_colorspace returned a colorspace to the builder on top
\* of the stack, which runs to its end.
Resume(w) ==
    LET o == stack[w][Len(stack[w])]
        D == Desc(o)
        c == ctl[w].cs
        s == SubOk(c)
    IN  /\ ctl[w].k = "ret"
        /\ stack[w] # << >>
        /\ top' = Tick(w)
        /\ CASE D.fam = "ICCBased" -> Leave(w, o, load_icc_based(heap, live, D.N, s), s)
             [] D.fam \in {"Indexed", "I"} ->
                  \E oom \in OomIdx : Leave(w, o, load_indexed(heap, live, o, D, c, oom), s)
             [] D.fam \in {"Separation", "DeviceN"} ->
                  \E oom \in OomSep : Leave(w, o, load_separation(heap, live, o, D, c, oom), s)
             [] OTHER -> Leave(w, o, imp_pattern(heap, live, c), s)
        /\ UNCHANGED << graph, mayfail, workers, closed >>

\* An exception reaches the builder on top of the stack.
Unwind(w) ==
    LET o == stack[w][Len(stack[w])]
        D == Desc(o)
        e == ctl[w].err
    IN  /\ ctl[w].k = "throw"
        /\ stack[w] # << >>
        /\ top' = Tick(w)
        /\ Leave(w, o, imp_catch(D.fam, heap, live, D.N, e), SubErr(e))
        /\ UNCHANGED << graph, mayfail, workers, closed >>

\* pdf_load_colorspace after pdf_load_colorspace_imp returned: the colorspace
\* is stored under the object, the store keeping a reference of its own.
Store(w) ==
    LET o == ctl[w].obj
        c == ctl[w].cs
    IN  /\ ctl[w].k = "impret"
        /\ top' = Tick(w)
        /\ cache' = pdf_store_item(cache, o, c)
        /\ heap' = fz_keep_colorspace(heap, c)
        /\ ctl' = [ctl EXCEPT ![w] = Ret(o, c, FALSE, ctl[w].sub)]
        /\ UNCHANGED << graph, mayfail, workers, marked, live, stack, closed >>

\* The top-level pdf_load_colorspace hands its result to the caller.
Finish(w) ==
    LET c == ctl[w]
    IN  /\ c.k \in {"ret", "throw"}
        /\ stack[w] = << >>
        /\ top' = [top EXCEPT ![w] = [@ EXCEPT !.k = IF c.k = "ret" THEN "ok" ELSE "err",
                                                 !.cs = c.cs, !.err = c.err, !.hit = c.hit,
                                                 !.sub = c.sub, !.held = c.k = "ret"]]
        /\ ctl' = [ctl EXCEPT ![w] = Idle]
        /\ UNCHANGED << graph, mayfail, workers, cache, marked, heap, live, stack, closed >>

\* The caller drops the reference it was returned.
Release(w) ==
    LET r == AfterDrop(heap, live, top[w].cs)
    IN  /\ top[w].held
        /\ top' = [top EXCEPT ![w].held = FALSE]
        /\ heap' = r.heap
        /\ live' = r.live
        /\ UNCHANGED << graph, mayfail, workers, cache, marked, stack, ctl, closed >>

\* The document is closed: the store drops every colorspace it holds.
RECURSIVE DropAll(_, _, _)
DropAll(h, lv, S) ==
    IF S = {} THEN [heap |-> h, live |-> lv]
    ELSE LET o == CHOOSE x \in S : TRUE
             r == AfterDrop(h, lv, cache[o])
         IN  DropAll(r.heap, r.live, S \ {o})

Teardown ==
    LET r == DropAll(heap, live, DOMAIN cache)
    IN  /\ ~closed
        /\ \A w \in workers : ctl[w].k = "idle" /\ ~top[w].held
        /\ closed' = TRUE
        /\ cache' = [o \in DOMAIN cache |-> NULL]
        /\ heap' = r.heap
        /\ live' = r.live
        /\ UNCHANGED << graph, mayfail, workers, marked, stack, ctl, top >>

\* --------------------------------------------------------------- documents

\* The documents a session may be opened on.  Node 1 is the object the
\* family is about, node 2 the object it nests, the nodes after it close
\* the chain: every family of the code, every kind of nested outcome, and
\* cycles of every length back to node 1.
Gray == PDF_NAME("DeviceGray")

Rgb == PDF_NAME("DeviceRGB")

Cmyk == PDF_NAME("DeviceCMYK")

Lookups ==
    { <<"null", 0>>, <<"int", 0>>, <<"str", 2>>, <<"str", 6>>, <<"str", 8>>,
      <<"str", 1024>>, <<"istr", 2>>, <<"stream", 0>>, <<"stream", 3>>,
      <<"stream", 2000>>, <<"badstream", 0>> }

\* Node 1 with a nested object that is a name, absent, or node 1 itself.
Leaf1 ==
    { DIcc(n, a) : n \in 0..4, a \in {NULL, Rgb} }
    \cup { DIdx("Indexed", b, h, l[1], l[2]) : b \in {Rgb}, h \in {-1, 0, 1, 300}, l \in Lookups }
    \cup { DIdx("I", b, 1, "str", 8) : b \in {Gray, Cmyk, NULL, 1} }
    \cup { DSep("DeviceN", nm, Rgb, t) : nm \in {0, 1, 2, 5, 32, 33}, t \in {"ok", "bad"} }
    \cup { DSep("Separation", -1, b, "ok") : b \in {Gray, NULL, 1} }
    \cup { DPat(u) : u \in {NULL, Rgb, 1, PDF_NAME("Bogus")} }
    \cup { DIcc(3, 1) }
    \cup { DArr(f) : f \in {"G", "RGB", "CMYK", "DeviceGray", "DeviceRGB", "DeviceCMYK",
                            "CalGray", "CalRGB", "CalCMYK", "Lab", "Bogus", ""} }
    \cup { DName(NameTable[i]) : i \in 1..Len(NameTable) }
    \cup { [DArr("Lab") EXCEPT !.sub = 1, !.N = 4, !.names = 33, !.tint = "bad"],
            [DArr("CalGray") EXCEPT !.sub = PDF_NAME("Bogus"), !.high = 300] }
    \cup { Plain }

\* Node 2 under a node 1 of Leaf1: a wrapper around node 1.
Wrap2 == { DPat(1), DIcc(1, 1) }

\* Node 1 with node 2 nested in it.
Outer1 ==
    { DIcc(n, 2) : n \in 1..4 }
    \cup { DIdx("Indexed", 2, h, l[1], l[2]) : h \in {1, 300}, l \in {<<"str", 8>>, <<"stream", 3>>, <<"null", 0>>} }
    \cup { DSep("DeviceN", nm, 2, t) : nm \in {2, 33}, t \in {"ok", "bad"} }
    \cup { DPat(2) }

\* Node 2 under a node 1 of Outer1: every outcome a nested call can have
\* (next is the node after node 2, or a name when there is none).
Mid2 ==
    LET next == 3
    IN  { DSep("Separation", -1, Rgb, "ok"), DSep("Separation", -1, Rgb, "bad"),
          DSep("DeviceN", 0, Gray, "ok"), DSep("DeviceN", 2, next, "ok"),
          DSep("DeviceN", 33, Rgb, "ok"),
          DArr("CalRGB"), DArr("CalCMYK"), DArr("Bogus"), Plain,
          DPat(1), DPat(2), DPat(next),
          DIdx("I", 1, 1, "str", 8), DIdx("I", next, 1, "str", 8),
          DIcc(3, 1), DIcc(1, next), DIcc(3, next) }

\* The nodes after node 2.
Inner(i) ==
    { DName("DeviceCMYK"), DPat(1), DIcc(1, 1) }
    \cup (IF i < NumNodes THEN { DPat(i + 1) } ELSE {})

RECURSIVE Extend(_, _)
Extend(S, i) ==
    IF i > NumNodes THEN S
    ELSE Extend({ Append(g, d) : g \in S, d \in Inner(i) }, i + 1)

Graphs ==
    Extend({ << a, b >> : a \in Leaf1, b \in Wrap2 }
             \cup { << a, b >> : a \in Outer1, b \in Mid2 }, 3)

\* ------------------------------------------------------------ specification

InitSession ==
    /\ cache = [o \in Objs |-> NULL]
    /\ marked = {}
    /\ heap = InitHeap
    /\ live = [funcs |-> 0, bufs |-> 0]
    /\ stack = [w \in Workers |-> << >>]
    /\ ctl = [w \in Workers |-> Idle]
    /\ top = [w \in Workers |-> NoTop]
    /\ closed = FALSE

Init == graph \in Graphs /\ InitSession /\ mayfail = FALSE /\ workers = {1}

Next ==
    \/ \E w \in workers, o \in Nodes : Call(w, o)
    \/ \E w \in workers : LoadColorspace(w)
    \/ \E w \in workers : Build(w)
    \/ \E w \in workers : Resume(w)
    \/ \E w \in workers : Unwind(w)
    \/ \E w \in workers : Store(w)
    \/ \E w \in workers : Finish(w)
    \/ \E w \in workers : Release(w)
    \/ Teardown

Spec == Init /\ [][Next]_vars

\* The same session with an allocator that may run out of memory.
InitOom == graph \in Graphs /\ InitSession /\ mayfail = TRUE /\ workers = {1}

SpecOom == InitOom /\ [][Next]_vars

\* Documents without a cycle in which every call succeeds when it runs
\* alone: node 1 nests node 2, node 2 a device name, the others are names.
SharedGraphs ==
    { [i \in Nodes |-> IF i = 1 THEN a ELSE IF i = 2 THEN b ELSE DName("DeviceCMYK")] :
        a \in { DIdx("Indexed", 2, 1, "str", 8), DPat(2), DIcc(1, 2) },
        b \in { DSep("Separation", -1, Rgb, "ok"), DIdx("I", Rgb, 0, "str", 8) } }

\* One session used by two workers with no lock around their calls: the
\* steps of the two calls interleave.
InitShared == graph \in SharedGraphs /\ InitSession /\ mayfail = FALSE /\ workers = {1, 2}

SpecShared == InitShared /\ [][Next]_vars

\* ------------------------------------------------------------ vocabulary

DeepFams == {"ICCBased", "Indexed", "I", "Separation", "DeviceN", "Pattern"}

\* o is an array of a family that has a builder.
IsDeep(o) == o \in Nodes /\ graph[o].shape = "Array" /\ graph[o].fam \in DeepFams

NumDeep == Cardinality({ o \in Nodes : IsDeep(o) })

\* Following nested colorspace objects from x leads to o within k steps.
RECURSIVE Leads(_, _, _)
Leads(x, o, k) ==
    \/ x = o
    \/ k > 0 /\ IsDeep(x) /\ Leads(graph[x].sub, o, k - 1)

\* The nested object of o leads back to o.
OnCycle(o) == IsDeep(o) /\ Leads(graph[o].sub, o, NumNodes)

\* The objects on the chain from x up to its first return to o.
RECURSIVE Chain(_, _, _)
Chain(x, o, k) ==
    IF x = o \/ k = 0 \/ ~IsDeep(x) THEN {x}
    ELSE {x} \cup Chain(graph[x].sub, o, k - 1)

\* Number of pdf_load_colorspace calls of worker w that have not returned.
Depth(w) == Len(stack[w]) + (IF ctl[w].k \in {"call", "impret"} THEN 1 ELSE 0)

Done(w) == top[w].k \in {"ok", "err"}

\* ---------------------------------------------------------------------- C1

\* C1: once the store holds a colorspace for a deep-family array d, the entry
\* never changes while the session is open, every pdf_load_colorspace(d)
\* that is entered returns that very colorspace as a store hit without
\* marking d or pushing a builder, and every colorspace a call on d returns
\* is the one stored for d.
C1_SameInstance ==
    [][ ~closed' =>
          \A o \in Nodes : IsDeep(o) =>
            /\ cache[o] # NULL => cache'[o] = cache[o]
            /\ \A w \in workers :
                 /\ (cache[o] # NULL /\ ctl[w] = DoCall(o) /\ ctl'[w] # ctl[w]) =>
                       /\ ctl'[w] = Ret(o, cache[o], TRUE, NoSub)
                       /\ stack'[w] = stack[w]
                       /\ marked' = marked
                       /\ Len(heap') = Len(heap)
                 /\ (ctl'[w].k = "ret" /\ ctl'[w].obj = o) => cache'[o] = ctl'[w].cs
                 /\ (top'[w].k = "ok" /\ top'[w].obj = o) => cache'[o] = top'[w].cs
      ]_vars

\* A second top-level call on a deep-family array is answered from the store
\* with the colorspace a builder made.
C1_Witness ==
    \E w \in workers :
        /\ top[w].k = "ok" /\ top[w].hit /\ IsDeep(top[w].obj)
        /\ heap[top[w].cs].conv # "device"
        /\ heap[top[w].cs].refs >= 2

\* ---------------------------------------------------------------------- C2

IsTintArray(o) == IsDeep(o) /\ graph[o].fam \in {"Separation", "DeviceN"}

IsIndexedArray(o) == IsDeep(o) /\ graph[o].fam \in {"Indexed", "I"}

\* The cycle through o has no ICCBased array and no Separation/DeviceN array
\* with more than FZ_MAX_COLORS names on it.
PlainCycle(o) ==
    /\ OnCycle(o)
    /\ \A x \in Chain(graph[o].sub, o, NumNodes) \cup {o} :
          /\ graph[x].fam # "ICCBased"
          /\ IsTintArray(x) => SepN(graph[x]) <= FZ_MAX_COLORS

\* C2 as stated: a top-level call, made with an empty store, on an Indexed or
\* Separation/DeviceN array whose base leads back to it fails with the
\* recursion error.
C2_Original ==
    \A w \in workers :
        (Done(w) /\ top[w].fresh /\ (IsIndexedArray(top[w].obj) \/ IsTintArray(top[w].obj))
           /\ OnCycle(top[w].obj))
        => (top[w].k = "err" /\ top[w].err = "Cycle")

\* C2 amended: the same, for cycles that pass through no ICCBased array and
\* no Separation/DeviceN array with more than FZ_MAX_COLORS names.
C2_PlainCycle ==
    \A w \in workers :
        (Done(w) /\ top[w].fresh /\ (IsIndexedArray(top[w].obj) \/ IsTintArray(top[w].obj))
           /\ PlainCycle(top[w].obj))
        => (top[w].k = "err" /\ top[w].err = "Cycle")

\* A cycle of at least two arrays was entered from an empty store and ended
\* in the recursion error.
C2_Witness ==
    \E w \in workers :
        /\ Done(w) /\ top[w].fresh /\ IsIndexedArray(top[w].obj)
        /\ PlainCycle(top[w].obj) /\ graph[top[w].obj].sub # top[w].obj
        /\ top[w].err = "Cycle" /\ top[w].steps >= 5

\* ---------------------------------------------------------------------- C3

\* Steps a top-level call can take: four per deep-family array (enter, build,
\* resume or unwind, store) and as many for the leaf that ends the chain.
StepBound == 4 * (NumDeep + 1)

Step(w) ==
    LoadColorspace(w) \/ Build(w) \/ Resume(w) \/ Unwind(w) \/ Store(w) \/ Finish(w)

\* C3: the calls of a worker never nest deeper than the number of deep-family
\* arrays of the document plus one, no array has two builders on the stack,
\* a top-level call is over within StepBound steps, and until it is over it
\* can take a step.
C3_Terminates ==
    \A w \in workers :
        /\ Depth(w) <= NumDeep + 1
        /\ \A i, j \in 1..Len(stack[w]) : i # j => stack[w][i] # stack[w][j]
        /\ top[w].steps <= StepBound
        /\ ctl[w].k # "idle" => ENABLED Step(w)

\* A call on a cyclic document of deep-family arrays only reached the
\* greatest depth, about to enter an array that is in progress.
C3_Witness ==
    \E w \in workers :
        /\ NumDeep = NumNodes /\ Depth(w) = NumDeep + 1
        /\ ctl[w].k = "call" /\ ctl[w].obj \in marked

\* ---------------------------------------------------------------------- C4

\* C4: whenever no call is active, no object is marked.
C4_NoMarkLeft ==
    (\A w \in workers : ctl[w].k = "idle") => marked = {}

\* A top-level call that went through an ICCBased builder which swallowed
\* the error of its alternate is over.
C4_Witness ==
    \E w \in workers :
        /\ Done(w) /\ ctl[w].k = "idle" /\ marked = {}
        /\ IsDeep(top[w].obj) /\ graph[top[w].obj].fam = "ICCBased"
        /\ top[w].sub.k = "err" /\ top[w].k = "ok"

\* The early exit of [Pattern] with no argument is over.
C4_WitnessBreak ==
    \E w \in workers :
        /\ Done(w) /\ ctl[w].k = "idle" /\ marked = {}
        /\ IsDeep(top[w].obj) /\ graph[top[w].obj].fam = "Pattern"
        /\ graph[top[w].obj].sub = NULL /\ ~top[w].hit

\* ---------------------------------------------------------------------- C5

Built5 == { i \in DOMAIN heap : heap[i].conv # "device" }

\* References to colorspace i that the state accounts for: store entries,
\* live colorspaces that embed it as base, references a caller holds, and
\* the reference a returning call carries.
Holders(i) ==
    Cardinality({ o \in DOMAIN cache : cache[o] = i })
    + Cardinality({ j \in Built5 : heap[j].refs > 0 /\ heap[j].base = i })
    + Cardinality({ w \in workers : top[w].held /\ top[w].cs = i })
    + Cardinality({ w \in workers : ctl[w].k \in {"impret", "ret"} /\ ctl[w].cs = i })

\* C5: at every point the reference count of every built colorspace equals
\* the number of its holders (so once the callers released what they were
\* returned: the store entries plus the live colorspaces embedding it); the
\* tint functions alive are those of the live Separation/DeviceN colorspaces
\* and the lookup tables alive those of the live Indexed colorspaces; after
\* the session is closed nothing is alive.
C5_RefsExact ==
    /\ \A i \in Built5 : heap[i].refs = Holders(i)
    /\ live.funcs = Cardinality({ i \in Built5 : heap[i].refs > 0
                                                   /\ heap[i].conv = "separation_to_rgb" })
    /\ live.bufs = Cardinality({ i \in Built5 : heap[i].refs > 0
                                                  /\ heap[i].conv = "indexed_to_rgb"
                                                  /\ Len(heap[i].lookup) > 0 })
    /\ closed => (live.funcs = 0 /\ live.bufs = 0 /\ \A i \in Built5 : heap[i].refs = 0)

\* A Separation/DeviceN build failed after its tint function was loaded, over
\* a base that a builder made: the base is back to its store reference and
\* no function is left.
C5_Witness ==
    \E w \in workers :
        /\ Done(w) /\ top[w].k = "err" /\ top[w].err = "Memory" /\ IsTintArray(top[w].obj)
        /\ top[w].sub.k = "ok" /\ top[w].sub.cs \in Built5
        /\ heap[top[w].sub.cs].refs = 1
        /\ live.funcs = 0

\* An ICCBased alternate of the wrong size was discarded: it stays with its
\* store reference only.
C5_WitnessDiscard ==
    \E w \in workers :
        /\ Done(w) /\ ~top[w].held /\ graph[top[w].obj].fam = "ICCBased" /\ ~top[w].hit
        /\ top[w].sub.k = "ok" /\ top[w].sub.cs \in Built5 /\ top[w].cs # top[w].sub.cs
        /\ heap[top[w].sub.cs].refs = 1

\* An Indexed build failed on its lookup table over a base a builder made.
C5_WitnessTable ==
    \E w \in workers :
        /\ Done(w) /\ top[w].k = "err" /\ top[w].err = "Syntax" /\ IsIndexedArray(top[w].obj)
        /\ top[w].sub.k = "ok" /\ top[w].sub.cs \in Built5
        /\ heap[top[w].sub.cs].refs = 1 /\ live.bufs = 0

\* ---------------------------------------------------------------------- C6

IsIccArray(o) == IsDeep(o) /\ graph[o].fam = "ICCBased"

\* The outcome (k, c, e) the builder of ICCBased array o must have after a
\* nested call with outcome s.
IccRule(o, k, c, e, s) ==
    LET D == graph[o]
    IN  /\ (D.sub = NULL) <=> (s.k = "none")
        /\ IF s.k = "ok" /\ heap[s.cs].n = D.N
           THEN k = "ok" /\ c = s.cs /\ (closed \/ cache[D.sub] = c)
           ELSE CASE D.N = 1 -> k = "ok" /\ c = fz_device_gray
                  [] D.N = 3 -> k = "ok" /\ c = fz_device_rgb
                  [] D.N = 4 -> k = "ok" /\ c = fz_device_cmyk
                  [] OTHER -> k = "err" /\ e = "Syntax" /\ c = NULL

\* C6: a call on an ICCBased array that is not answered from the store
\* returns the colorspace its nested call on the Alternate returned (the one
\* stored for the Alternate) when that has N components; otherwise - no
\* Alternate, another size, or any error of the nested call - DeviceGray for
\* N = 1, DeviceRGB for N = 3, DeviceCMYK for N = 4 and a syntax error for
\* any other N.  This holds of the top-level call and of every run of the
\* builder.  No colorspace is ever built for an ICCBased array.
C6_IccBased ==
    /\ \A w \in workers :
         /\ (Done(w) /\ IsIccArray(top[w].obj) /\ ~top[w].hit) =>
               IccRule(top[w].obj, top[w].k, top[w].cs, top[w].err, top[w].sub)
         /\ (ctl[w].k \in {"impret", "throw"} /\ IsIccArray(ctl[w].obj)
               /\ ctl[w].obj \notin marked) =>
               IccRule(ctl[w].obj, IF ctl[w].k = "throw" THEN "err" ELSE "ok",
                       ctl[w].cs, ctl[w].err, ctl[w].sub)
    /\ \A i \in Built5 : heap[i].name # "ICCBased" /\ ~IsIccArray(heap[i].src)

\* The Alternate failed and the call answered with the device colorspace of N.
C6_Witness ==
    \E w \in workers :
        /\ Done(w) /\ IsIccArray(top[w].obj) /\ ~top[w].hit
        /\ top[w].sub.k = "err" /\ top[w].sub.err \in {"ComponentLimit", "ResourceLoad"}
        /\ top[w].k = "ok" /\ top[w].cs \in {fz_device_rgb, fz_device_cmyk}

\* The Alternate had N components and a builder made it.
C6_WitnessAlt ==
    \E w \in workers :
        /\ Done(w) /\ IsIccArray(top[w].obj) /\ ~top[w].hit
        /\ top[w].sub.k = "ok" /\ top[w].cs = top[w].sub.cs /\ top[w].cs \in Built5

\* ---------------------------------------------------------------------- C7

\* What the builder of array o does with the outcome s of its nested call,
\* for the families other than ICCBased.
Passes(o, k, e, c, s) ==
    LET D == graph[o]
    IN  /\ s.k = "err" => (k = "throw" /\ e = s.err /\ c = NULL)
        /\ (s.k = "ok" /\ IsTintArray(o) /\ D.tint = "bad") =>
              (k = "throw" /\ e = "ResourceLoad" /\ c = NULL)
        /\ (s.k = "ok" /\ IsIndexedArray(o) /\ D.lk = "badstream") =>
              (k = "throw" /\ e = "ResourceLoad" /\ c = NULL)

\* C7: when the nested call of an Indexed, Separation/DeviceN or Pattern
\* array fails, the call on the array fails with the same error and returns
\* no colorspace; so it does when the tint function or the lookup stream
\* cannot be loaded.  This holds of every call, nested or top-level.
C7_NoAbsorb ==
    \A w \in workers :
        /\ (ctl[w].k \in {"impret", "throw"} /\ IsDeep(ctl[w].obj) /\ ~IsIccArray(ctl[w].obj)) =>
              Passes(ctl[w].obj, ctl[w].k, ctl[w].err, ctl[w].cs, ctl[w].sub)
        /\ (Done(w) /\ IsDeep(top[w].obj) /\ ~IsIccArray(top[w].obj) /\ ~top[w].hit) =>
              Passes(top[w].obj, IF top[w].k = "err" THEN "throw" ELSE "impret",
                     top[w].err, top[w].cs, top[w].sub)

\* The error of a nested call two levels down reached the caller unchanged.
C7_Witness ==
    \E w \in workers :
        /\ Done(w) /\ top[w].k = "err" /\ top[w].sub.k = "err"
        /\ IsDeep(top[w].obj) /\ ~IsIccArray(top[w].obj)
        /\ top[w].err \in {"ResourceLoad", "ComponentLimit", "Syntax"}
        /\ top[w].steps >= 6

\* ---------------------------------------------------------------------- C8

IndexedCS == { i \in Built5 : heap[i].conv = "indexed_to_rgb" }

\* C8: every Indexed colorspace has one component, the hival of its array
\* clamped into 0..255, and a lookup table of base.n * (hival + 1) bytes.
C8_IndexedShape ==
    \A i \in IndexedCS :
        LET D == graph[heap[i].src]
            hv == IF D.high > 255 THEN 255 ELSE IF D.high < 0 THEN 0 ELSE D.high
        IN  /\ IsIndexedArray(heap[i].src)
            /\ heap[i].n = 1
            /\ heap[i].high = hv
            /\ heap[i].base # NULL
            /\ Len(heap[i].lookup) = heap[heap[i].base].n * (hv + 1)

\* An Indexed colorspace whose array says hival 300, over DeviceRGB.
C8_Witness ==
    \E i \in IndexedCS :
        /\ graph[heap[i].src].high = 300 /\ heap[i].high = 255
        /\ heap[i].base = fz_device_rgb /\ Len(heap[i].lookup) = 768

\* An Indexed colorspace over another Indexed colorspace.
C8_WitnessNested ==
    \E i \in IndexedCS : heap[i].base \in IndexedCS

\* An Indexed colorspace whose array says hival -1.
C8_WitnessNegative ==
    \E i \in IndexedCS : graph[heap[i].src].high < 0 /\ heap[i].high = 0

\* ---------------------------------------------------------------------- C9

\* The lookup table the builder of Indexed array o must produce from a base
\* with bn components, or the failure.
LookupAsSpecified(o, bn, k, e, c) ==
    LET D == graph[o]
        hv == IF D.high > 255 THEN 255 ELSE IF D.high < 0 THEN 0 ELSE D.high
        tl == bn * (hv + 1)
        made == { i \in IndexedCS : heap[i].src = o }
    IN  /\ (D.lk = "str" /\ D.len >= tl) =>
              /\ k = "impret" /\ c \in made
              /\ heap[c].lookup = [j \in 1..tl |-> StrByte(j - 1)]
        /\ (D.lk = "stream" /\ D.len < tl) =>
              /\ k = "impret" /\ c \in made
              /\ Len(heap[c].lookup) = tl
              /\ \A j \in 1..tl : heap[c].lookup[j] = IF j <= D.len THEN StreamByte(j - 1) ELSE 0
        /\ ((D.lk = "str" /\ D.len < tl) \/ D.lk = "null") =>
              /\ k = "throw" /\ e = "Syntax" /\ c = NULL
              /\ made = {}
              /\ cache[o] = NULL

\* C9: once the base of an Indexed array is resolved, a direct string of at
\* least tableLen bytes gives a table of its first tableLen bytes; a stream
\* that delivers fewer bytes gives a table of those bytes followed by zeros;
\* a shorter direct string or no lookup object is a syntax error, and then
\* no Indexed colorspace exists for the array and nothing is stored for it.
C9_LookupSource ==
    \A w \in workers :
        /\ (ctl[w].k \in {"impret", "throw"} /\ IsIndexedArray(ctl[w].obj) /\ ctl[w].sub.k = "ok") =>
              LookupAsSpecified(ctl[w].obj, heap[ctl[w].sub.cs].n, ctl[w].k, ctl[w].err, ctl[w].cs)
        /\ (Done(w) /\ IsIndexedArray(top[w].obj) /\ ~top[w].hit /\ top[w].sub.k = "ok") =>
              LookupAsSpecified(top[w].obj, heap[top[w].sub.cs].n,
                                IF top[w].k = "err" THEN "throw" ELSE "impret",
                                top[w].err, top[w].cs)

\* A stream shorter than the table was read and zero-filled.
C9_Witness ==
    \E w \in workers :
        /\ Done(w) /\ top[w].k = "ok" /\ IsIndexedArray(top[w].obj) /\ ~top[w].hit
        /\ graph[top[w].obj].lk = "stream" /\ graph[top[w].obj].len = 3
        /\ Len(heap[top[w].cs].lookup) > 3
        /\ heap[top[w].cs].lookup[3] # 0 /\ heap[top[w].cs].lookup[4] = 0

\* A direct string shorter than the table ended the call in a syntax error.
C9_WitnessShort ==
    \E w \in workers :
        /\ Done(w) /\ top[w].k = "err" /\ top[w].err = "Syntax" /\ IsIndexedArray(top[w].obj)
        /\ top[w].sub.k = "ok" /\ graph[top[w].obj].lk = "str"

\* --------------------------------------------------------------------- C10

KnownFams ==
    DeepFams \cup {"G", "RGB", "CMYK", "DeviceGray", "DeviceRGB", "DeviceCMYK",
                   "CalGray", "CalRGB", "CalCMYK", "Lab"}

\* o is an array whose first element is no known family name, or an object
\* that is neither a name nor an array.
Unparsable(o) ==
    /\ o \in Nodes
    /\ \/ graph[o].shape = "Other"
       \/ graph[o].shape = "Array" /\ graph[o].fam \notin KnownFams

\* C10: a pdf_load_colorspace that ends in an exception leaves nothing stored
\* for its object; an entry appears only in the step in which a call on that
\* very object returns the colorspace that is stored; a call on an array
\* with an unknown family name, or on an object that is neither name nor
\* array, ends in a syntax error.
C10_NoEntryOnFailure ==
    [][ /\ \A w \in workers :
            /\ (ctl'[w].k = "throw" /\ ctl'[w].obj \in DOMAIN cache') => cache'[ctl'[w].obj] = NULL
            /\ (top'[w].k = "err" /\ ~closed') => cache'[top'[w].obj] = NULL
            /\ (top'[w].k \in {"ok", "err"} /\ Unparsable(top'[w].obj)) =>
                  (top'[w].k = "err" /\ top'[w].err = "Syntax")
        /\ \A o \in DOMAIN cache :
            (cache'[o] # cache[o] /\ ~closed') =>
               \E w \in workers :
                  ctl'[w] = Ret(o, cache'[o], FALSE, ctl[w].sub) /\ ctl[w].k = "impret"
      ]_vars

\* A call on an array with an unknown family name ended in a syntax error
\* with nothing stored and nothing marked.
C10_Witness ==
    \E w \in workers :
        /\ Done(w) /\ top[w].k = "err" /\ top[w].err = "Syntax"
        /\ graph[top[w].obj].shape = "Array" /\ graph[top[w].obj].fam = "Bogus"
        /\ cache[top[w].obj] = NULL /\ marked = {} /\ ~closed

\* A call on an array whose nested array has an unknown family name failed
\* with the syntax error and nothing is stored for either.
C10_WitnessNested ==
    \E w \in workers :
        /\ Done(w) /\ top[w].k = "err" /\ top[w].err = "Syntax"
        /\ top[w].sub.k = "err" /\ IsDeep(top[w].obj)
        /\ graph[top[w].obj].sub \in Nodes
        /\ graph[graph[top[w].obj].sub].fam = "Bogus"
        /\ cache[top[w].obj] = NULL /\ cache[graph[top[w].obj].sub] = NULL

\* --------------------------------------------------------------------- C11

\* o is a name: a name object, or an indirect object that is a name.
IsNameObj(o) == o \in Objs /\ Desc(o).shape = "Name"

Names == { NameTable[i] : i \in 1..Len(NameTable) }

\* The outcome (k, c, e) of a call on a name is the device colorspace
\* dev, or the syntax error when dev is NULL.
NameOutcome(dev, k, c, e) ==
    IF dev # NULL THEN k = "ok" /\ c = dev
    ELSE k = "err" /\ e = "Syntax" /\ c = NULL

\* The device colorspace the claim gives every name.
ClaimedName(s) ==
    IF s \in {"G", "DeviceGray", "CalGray", "Pattern"} THEN fz_device_gray
    ELSE IF s \in {"RGB", "DeviceRGB", "CalRGB"} THEN fz_device_rgb
    ELSE IF s \in {"CMYK", "DeviceCMYK", "CalCMYK"} THEN fz_device_cmyk
    ELSE IF s = "Lab" THEN fz_device_lab
    ELSE NULL

\* The same without the calibrated families and Lab.
DeviceName(s) ==
    IF s \in {"G", "DeviceGray", "Pattern"} THEN fz_device_gray
    ELSE IF s \in {"RGB", "DeviceRGB"} THEN fz_device_rgb
    ELSE IF s \in {"CMYK", "DeviceCMYK"} THEN fz_device_cmyk
    ELSE NULL

\* Every call on a name, finished or returning, has the outcome the table T
\* (a function of the names) gives the name.
NamesResolveBy(T) ==
    \A w \in workers :
        /\ (Done(w) /\ IsNameObj(top[w].obj)) =>
              NameOutcome(T[Desc(top[w].obj).fam], top[w].k, top[w].cs, top[w].err)
        /\ (ctl[w].k \in {"impret", "ret", "throw"} /\ IsNameObj(ctl[w].obj)) =>
              NameOutcome(T[Desc(ctl[w].obj).fam], IF ctl[w].k = "throw" THEN "err" ELSE "ok",
                          ctl[w].cs, ctl[w].err)

\* C11 as stated: G, DeviceGray, CalGray and Pattern give DeviceGray; RGB,
\* DeviceRGB and CalRGB give DeviceRGB; CMYK, DeviceCMYK and CalCMYK give
\* DeviceCMYK; Lab gives DeviceLab; every other name is a syntax error.
C11_Original == NamesResolveBy([s \in Names |-> ClaimedName(s)])

\* C11 amended: G, DeviceGray and Pattern give DeviceGray; RGB and DeviceRGB
\* give DeviceRGB; CMYK and DeviceCMYK give DeviceCMYK; every other name,
\* CalGray, CalRGB, CalCMYK and Lab among them, is a syntax error.
C11_NameTable == NamesResolveBy([s \in Names |-> DeviceName(s)])

\* A call on the name Pattern returned DeviceGray.
C11_Witness ==
    \E w \in workers :
        /\ Done(w) /\ IsNameObj(top[w].obj) /\ Desc(top[w].obj).fam = "Pattern"
        /\ top[w].k = "ok" /\ top[w].cs = fz_device_gray /\ ~top[w].hit

\* A call on the name Lab ended in the syntax error.
C11_WitnessLab ==
    \E w \in workers :
        /\ Done(w) /\ IsNameObj(top[w].obj) /\ Desc(top[w].obj).fam = "Lab"
        /\ top[w].k = "err" /\ top[w].err = "Syntax"

\* --------------------------------------------------------------------- C12

AliasFams ==
    {"G", "RGB", "CMYK", "DeviceGray", "DeviceRGB", "DeviceCMYK",
     "CalGray", "CalRGB", "CalCMYK", "Lab"}

\* o is an array whose first element names a family that is answered with a
\* device colorspace at once.
IsAliasArray(o) == o \in Nodes /\ graph[o].shape = "Array" /\ graph[o].fam \in AliasFams

\* The device colorspace that matches an alias family.
AliasDevice(s) ==
    IF s \in {"G", "DeviceGray", "CalGray"} THEN fz_device_gray
    ELSE IF s \in {"RGB", "DeviceRGB", "CalRGB"} THEN fz_device_rgb
    ELSE IF s \in {"CMYK", "DeviceCMYK", "CalCMYK"} THEN fz_device_cmyk
    ELSE fz_device_lab

\* The steps of a call of worker w on an alias array: it is answered with
\* the matching device colorspace, it never marks, pushes a builder, builds
\* or counts a reference; the store is left as it was (stores = FALSE) or
\* gets the device colorspace as the array's entry, and nothing else
\* (stores = TRUE).
AliasSteps(w, stores) ==
    LET o == ctl[w].obj
        dev == AliasDevice(graph[o].fam)
    IN  (/\ IsAliasArray(o) /\ ctl'[w] # ctl[w]
         /\ ctl[w].k \in {"call", "impret"} \/ (ctl[w].k = "ret" /\ stack[w] = << >>)) =>
           /\ marked' = marked /\ stack' = stack /\ heap' = heap /\ live' = live
           /\ ctl[w].k = "call" =>
                 /\ ctl'[w] \in {ImpRet(o, dev, NoSub), Ret(o, dev, TRUE, NoSub)}
                 /\ cache' = cache
           /\ ctl[w].k = "impret" =>
                 /\ ctl'[w] = Ret(o, dev, FALSE, NoSub)
                 /\ cache' = IF stores THEN [cache EXCEPT ![o] = dev] ELSE cache
           /\ (ctl[w].k = "ret" /\ stack[w] = << >>) =>
                 /\ top'[w].k = "ok" /\ top'[w].cs = dev
                 /\ cache' = cache

IsPatternArray(o) == IsDeep(o) /\ graph[o].fam = "Pattern"

\* The outcome (k, c, e) the Pattern branch must have for array o after a
\* nested call with outcome s.
PatternRule(o, k, c, e, s) ==
    LET u == graph[o].sub
    IN  /\ u = NULL => (s.k = "none" /\ k = "ok" /\ c = fz_device_gray /\ heap[c].n = 1)
        /\ u # NULL =>
              /\ s.k \in {"ok", "err"}
              /\ s.k = "ok" => (k = "ok" /\ c = s.cs)
              /\ s.k = "err" => (k = "err" /\ e = s.err /\ c = NULL)

\* C13: a call on [Pattern] returns DeviceGray; a call on [Pattern u] that is
\* not answered from the store returns the very colorspace its nested call
\* on u returned, or fails with the error of that call; and whenever the
\* store holds a colorspace for [Pattern u] it holds the same one for u.
C13_PatternUnwrap ==
    /\ \A w \in workers :
         /\ (Done(w) /\ IsPatternArray(top[w].obj) /\ ~top[w].hit) =>
               PatternRule(top[w].obj, top[w].k, top[w].cs, top[w].err, top[w].sub)
         /\ (ctl[w].k \in {"impret", "throw"} /\ IsPatternArray(ctl[w].obj)
               /\ ctl[w].obj \notin marked) =>
               PatternRule(ctl[w].obj, IF ctl[w].k = "throw" THEN "err" ELSE "ok",
                           ctl[w].cs, ctl[w].err, ctl[w].sub)
    /\ \A o \in Nodes :
         (IsPatternArray(o) /\ graph[o].sub # NULL /\ cache[o] # NULL) =>
            cache[graph[o].sub] = cache[o]

\* A call on [Pattern u] returned the colorspace a builder made for u, and
\* the store holds it for both.
C13_Witness ==
    \E w \in workers :
        /\ Done(w) /\ IsPatternArray(top[w].obj) /\ ~top[w].hit /\ top[w].k = "ok"
        /\ top[w].sub.k = "ok" /\ top[w].cs = top[w].sub.cs /\ top[w].cs \in Built5
        /\ cache[top[w].obj] = top[w].cs /\ cache[graph[top[w].obj].sub] = top[w].cs
        /\ heap[top[w].cs].refs = 3

\* A call on [Pattern u] failed with the error of the call on u.
C13_WitnessError ==
    \E w \in workers :
        /\ Done(w) /\ IsPatternArray(top[w].obj) /\ top[w].k = "err"
        /\ top[w].sub.k = "err" /\ top[w].err = top[w].sub.err
        /\ top[w].err \in {"Syntax", "ResourceLoad", "ComponentLimit"}

\* A call on [Pattern] returned DeviceGray.
C13_WitnessBare ==
    \E w \in workers :
        /\ Done(w) /\ IsPatternArray(top[w].obj) /\ graph[top[w].obj].sub = NULL
        /\ ~top[w].hit /\ top[w].k = "ok" /\ top[w].cs = fz_device_gray

\* --------------------------------------------------------------------- C14

TintCS == { i \in Built5 : IsTintArray(heap[i].src) }

\* Colorspace i is what the claim says of the Separation/DeviceN array o.
TintShape(i, o) ==
    LET D == graph[o]
        n == IF D.names >= 0 THEN D.names ELSE 1
    IN  /\ heap[i].src = o
        /\ heap[i].n = n
        /\ heap[i].base # NULL
        /\ closed \/ cache[D.sub] = heap[i].base
        /\ heap[i].fin = n /\ heap[i].fout = heap[heap[i].base].n
        /\ heap[i].name = (IF n = 1 THEN "Separation" ELSE "DeviceN")

\* C14: every colorspace a call on a Separation/DeviceN array returns, and
\* every colorspace the builder made, has as many components as the names
\* array has elements (one when names is no array), embeds the colorspace
\* resolved for the base, has a tint function of n inputs and base.n outputs
\* and is called Separation when n = 1 and DeviceN otherwise; and
\* pdf_is_tint_colorspace is true of exactly the colorspaces this builder
\* made - so of a colorspace returned for a Pattern or ICCBased array exactly
\* when this builder made it - and false of the device and Indexed ones.
C14_TintShape ==
    /\ \A i \in TintCS : TintShape(i, heap[i].src)
    /\ \A w \in workers :
         (Done(w) /\ top[w].k = "ok" /\ IsTintArray(top[w].obj)) =>
            (top[w].cs \in TintCS /\ TintShape(top[w].cs, top[w].obj))
    /\ \A i \in DOMAIN heap : pdf_is_tint_colorspace(heap, i) <=> i \in TintCS
    /\ \A i \in DOMAIN heap :
         (heap[i].conv \in {"device", "indexed_to_rgb"}) => ~pdf_is_tint_colorspace(heap, i)
    /\ \A w \in workers :
         (Done(w) /\ top[w].k = "ok") =>
            (pdf_is_tint_colorspace(heap, top[w].cs) <=> IsTintArray(heap[top[w].cs].src))

\* [DeviceN, five names, DeviceRGB, tint] resolved: five components, a tint
\* function from five to three, called DeviceN.
C14_Witness ==
    \E w \in workers :
        /\ Done(w) /\ top[w].k = "ok" /\ IsTintArray(top[w].obj) /\ ~top[w].hit
        /\ graph[top[w].obj].names = 5
        /\ heap[top[w].cs].n = 5 /\ heap[top[w].cs].fin = 5 /\ heap[top[w].cs].fout = 3
        /\ heap[top[w].cs].base = fz_device_rgb /\ heap[top[w].cs].name = "DeviceN"
        /\ pdf_is_tint_colorspace(heap, top[w].cs)

\* A Separation colorspace was returned for a Pattern or ICCBased array.
C14_WitnessThrough ==
    \E w \in workers :
        /\ Done(w) /\ top[w].k = "ok" /\ (IsPatternArray(top[w].obj) \/ IsIccArray(top[w].obj))
        /\ pdf_is_tint_colorspace(heap, top[w].cs) /\ heap[top[w].cs].name = "Separation"

\* An Indexed colorspace was returned: no tint colorspace.
C14_WitnessIndexed ==
    \E w \in workers :
        /\ Done(w) /\ top[w].k = "ok" /\ top[w].cs \in IndexedCS
        /\ ~pdf_is_tint_colorspace(heap, top[w].cs)

\* --------------------------------------------------------------------- C15

\* C15: every colorspace a successful call returns has between 1 and
\* FZ_MAX_COLORS components.
C15_Original ==
    \A w \in workers :
        (Done(w) /\ top[w].k = "ok") =>
           (1 <= heap[top[w].cs].n /\ heap[top[w].cs].n <= FZ_MAX_COLORS)

\* --------------------------------------------------------------------- C16

\* o is a Separation/DeviceN array whose names array has more than 32 elements.
IsOverLimit(o) == IsTintArray(o) /\ graph[o].names > 32

\* C16: a call on a Separation/DeviceN array with more than 32 names that
\* enters the builder is thrown out of it with the component limit error in
\* the builder's first step, before any nested call: the store, the
\* colorspaces, their reference counts and the tint functions are as they
\* were, no entry exists for the array, and a top-level call on it is over
\* after these two steps with that error and no nested outcome.
C16_LimitBeforeBase ==
    [][ \A w \in workers :
          LET o == ctl[w].obj
          IN  /\ (IsOverLimit(o) /\ ctl'[w] # ctl[w] /\ ctl[w].k \in {"call", "build"}) =>
                    /\ ctl[w].k = "call" => ctl'[w] = DoBuild(o)
                    /\ ctl[w].k = "build" => ctl'[w] = Throw(o, "ComponentLimit", NoSub)
                    /\ cache' = cache /\ heap' = heap /\ live' = live
                    /\ cache[o] = NULL
              /\ (IsOverLimit(top'[w].obj) /\ top[w].k = "run" /\ top'[w].k \in {"ok", "err"}) =>
                    /\ top'[w].k = "err" /\ top'[w].err = "ComponentLimit"
                    /\ top'[w].steps = 2 /\ top'[w].sub = NoSub
                    /\ cache' = cache /\ heap' = heap
      ]_vars

\* The first call of a session, on [DeviceN, 33 names, DeviceRGB, tint],
\* failed with the component limit error: nothing is stored, for the base
\* neither, and nothing was built.
C16_Witness ==
    \E w \in workers :
        /\ Done(w) /\ top[w].fresh /\ IsOverLimit(top[w].obj)
        /\ graph[top[w].obj].names = 33 /\ graph[top[w].obj].sub = Rgb
        /\ top[w].k = "err" /\ top[w].err = "ComponentLimit"
        /\ \A x \in DOMAIN cache : cache[x] = NULL
        /\ heap = InitHeap /\ ~closed

\* --------------------------------------------------------------------- C17

\* The arrays whose builder is on the stack of worker w.
InProgress(w) == { stack[w][i] : i \in 1..Len(stack[w]) }

\* The arrays a worker other than w has in progress.
OthersInProgress(w) == UNION { InProgress(v) : v \in workers \ {w} }

\* C17: in a session two workers use without a lock, on documents without a
\* cycle in which every call succeeds when it runs alone: a worker that
\* enters an array which is not stored yet while another worker's builder
\* for it is in progress fails at once with the recursion error, leaving
\* the marks as they are; an exception arises in no other way - only on
\* entering an array that another worker, and not the worker itself, has in
\* progress - so a call made while the other worker has nothing in progress
\* succeeds; and the recursion error is the only error a call ends in.
C17_UnsafeSharing ==
    [][ \A w \in workers :
          LET o == ctl[w].obj
          IN  /\ (ctl[w].k = "call" /\ ctl'[w] # ctl[w] /\ cache[o] = NULL
                    /\ o \in OthersInProgress(w)) =>
                    (ctl'[w] = Throw(o, "Cycle", NoSub) /\ marked' = marked /\ stack' = stack)
              /\ (ctl'[w].k = "throw" /\ ctl[w].k # "throw") =>
                    /\ ctl[w].k = "call" /\ ctl'[w].err = "Cycle"
                    /\ o \in marked /\ o \in OthersInProgress(w) /\ o \notin InProgress(w)
              /\ top'[w].k = "err" => top'[w].err = "Cycle"
      ]_vars

\* Two workers called the same array of a document without a cycle: one
\* built and returned its colorspace, the other failed in its first step
\* with the recursion error.
C17_Witness ==
    \E w, v \in workers :
        /\ w # v /\ \A x \in Nodes : ~OnCycle(x)
        /\ top[w].obj = top[v].obj /\ IsDeep(top[w].obj)
        /\ top[w].k = "err" /\ top[w].err = "Cycle" /\ top[w].steps = 1
        /\ top[v].k = "ok" /\ ~top[v].hit /\ top[v].cs \in Built5

\* A worker's call on an ICCBased array whose Alternate the other worker had
\* in progress returned the device colorspace of N instead of the Alternate.
C17_WitnessSilent ==
    \E w, v \in workers :
        /\ w # v /\ IsIccArray(top[w].obj) /\ top[w].k = "ok" /\ ~top[w].hit
        /\ top[w].sub = SubErr("Cycle") /\ top[w].cs = fz_device_gray
        /\ top[v].k = "ok" /\ top[v].obj = graph[top[w].obj].sub /\ top[v].cs \in Built5

\* --------------------------------------------------------------------- C18

\* o is an array that pdf_load_colorspace_imp takes into its fz_try: its
\* first element is a name and no alias family.
IsGuarded(o) ==
    o \in Nodes /\ graph[o].shape = "Array" /\ graph[o].fam # "" /\ graph[o].fam \notin AliasFams

\* The marks are those of the arrays in progress, each of which is on the
\* stack once; no marked array has a store entry, and no array is marked
\* when pdf_load_colorspace is about to store it.
MarksAreStack ==
    /\ marked = UNION { InProgress(w) : w \in workers }
    /\ \A w \in workers : \A i, j \in 1..Len(stack[w]) : i # j => stack[w][i] # stack[w][j]
    /\ \A o \in marked : cache[o] = NULL
    /\ \A w \in workers : ctl[w].k = "impret" => ctl[w].obj \notin marked

\* C18 as stated: at every point the marked objects are exactly the
\* deep-family arrays whose builder is on the stack, each once; no marked
\* object has a store entry and an object is stored only once its mark is
\* cleared.
C18_Original == MarksAreStack /\ \A o \in marked : IsDeep(o)

\* C18 amended: the same of the arrays taken into the fz_try of
\* pdf_load_colorspace_imp: the deep-family arrays whose builder is on the
\* stack and, until it is thrown out, an array with an unknown family name.
C18_MarksAreStack ==
    /\ MarksAreStack
    /\ \A o \in marked : IsGuarded(o)
    /\ \A o \in marked : ~IsDeep(o) => \E w \in workers : ctl[w] = DoBuild(o)

\* Two nested builders are in progress, both arrays are marked and neither
\* is stored, while the innermost call is about to store its colorspace.
C18_Witness ==
    \E w \in workers :
        /\ Len(stack[w]) = 2 /\ marked = {stack[w][1], stack[w][2]}
        /\ ctl[w].k = "impret" /\ ctl[w].obj \notin marked /\ IsDeep(ctl[w].obj)
        /\ cache[ctl[w].obj] = NULL

\* An array with an unknown family name is marked.
C18_WitnessUnknown ==
    \E o \in marked : ~IsDeep(o) /\ graph[o].fam = "Bogus"

\* --------------------------------------------------------------------- C19

\* What a caller can tell of an outcome: the error, or the colorspace's kind,
\* number of components and, recursively, its base.
NoShape == [name |-> "", n |-> 0, base |-> << >>]

DevShape(c) == [name |-> InitHeap[c].name, n |-> InitHeap[c].n, base |-> << >>]

RECURSIVE ShapeOf(_, _)
ShapeOf(h, c) ==
    [name |-> h[c].name, n |-> h[c].n,
     base |-> IF h[c].base = NULL THEN << >> ELSE << ShapeOf(h, h[c].base) >>]

ShapeOk(sh) == [ok |-> TRUE, err |-> "", shape |-> sh]

ShapeErr(e) == [ok |-> FALSE, err |-> e, shape |-> NoShape]

\* The outcome of pdf_load_colorspace(o) when the objects of M are marked
\* and nothing is stored: the calls of a first call on a new document.
RECURSIVE FirstCall(_, _)
FirstCall(o, M) ==
    LET D == Desc(o)
        r == FirstCall(D.sub, M \cup {o})
        byN == IF D.N = 1 THEN ShapeOk(DevShape(fz_device_gray))
               ELSE IF D.N = 3 THEN ShapeOk(DevShape(fz_device_rgb))
               ELSE IF D.N = 4 THEN ShapeOk(DevShape(fz_device_cmyk))
               ELSE ShapeErr("Syntax")
        sn == IF D.names >= 0 THEN D.names ELSE 1
        hv == IF D.high > 255 THEN 255 ELSE IF D.high < 0 THEN 0 ELSE D.high
    IN  IF o \in M THEN ShapeErr("Cycle")
        ELSE IF D.shape = "Name"
        THEN IF DeviceName(D.fam) # NULL THEN ShapeOk(DevShape(DeviceName(D.fam)))
             ELSE ShapeErr("Syntax")
        ELSE IF D.shape # "Array" \/ D.fam = "" THEN ShapeErr("Syntax")
        ELSE IF D.fam \in AliasFams THEN ShapeOk(DevShape(AliasDevice(D.fam)))
        ELSE IF D.fam = "ICCBased"
        THEN IF D.sub # NULL /\ r.ok /\ r.shape.n = D.N THEN r ELSE byN
        ELSE IF D.fam \in {"Indexed", "I"}
        THEN IF ~r.ok THEN r
             ELSE IF D.lk \in {"str", "istr"} /\ D.len >= r.shape.n * (hv + 1)
             THEN ShapeOk([name |-> "Indexed", n |-> 1, base |-> << r.shape >>])
             ELSE IF D.lk = "stream"
             THEN ShapeOk([name |-> "Indexed", n |-> 1, base |-> << r.shape >>])
             ELSE IF D.lk \in {"istr", "badstream"} THEN ShapeErr("ResourceLoad")
             ELSE ShapeErr("Syntax")
        ELSE IF D.fam \in {"Separation", "DeviceN"}
        THEN IF sn > 32 THEN ShapeErr("ComponentLimit")
             ELSE IF ~r.ok THEN r
             ELSE IF D.tint # "ok" THEN ShapeErr("ResourceLoad")
             ELSE ShapeOk([name |-> IF sn = 1 THEN "Separation" ELSE "DeviceN",
                           n |-> sn, base |-> << r.shape >>])
        ELSE IF D.fam = "Pattern"
        THEN IF D.sub = NULL THEN ShapeOk(DevShape(fz_device_gray)) ELSE r
        ELSE ShapeErr("Syntax")

\* The finished call of worker w came out as the first call of a new session
\* on the same object does.
AsFirstCall(w) ==
    LET f == FirstCall(top[w].obj, {})
    IN  IF top[w].k = "ok" THEN f.ok /\ f.shape = ShapeOf(heap, top[w].cs)
        ELSE ~f.ok /\ f.err = top[w].err

\* An ICCBased array that can be reached from o lies on a cycle.
IccOnCycleFrom(o) ==
    \E x \in Nodes : Leads(o, x, NumNodes) /\ IsIccArray(x) /\ OnCycle(x)

\* C19 as stated: whatever calls were made before, a call comes out as the
\* first call of a new session on the same object does: the same error, or a
\* colorspace of the same kind, size and base structure.
C19_Original == \A w \in workers : Done(w) => AsFirstCall(w)

\* C19 amended: the same for the objects from which no ICCBased array that
\* lies on a cycle can be reached; and a call made with an empty store comes
\* out as FirstCall says, whatever the object.
C19_HistoryFree ==
    \A w \in workers :
        /\ (Done(w) /\ ~IccOnCycleFrom(top[w].obj)) => AsFirstCall(w)
        /\ (Done(w) /\ top[w].fresh) => AsFirstCall(w)

\* After earlier calls, a call on an array found the colorspace of its
\* nested array in the store and built the colorspace a first call builds.
C19_Witness ==
    \E w \in workers :
        /\ Done(w) /\ ~top[w].fresh /\ ~top[w].hit /\ top[w].k = "ok"
        /\ ~IccOnCycleFrom(top[w].obj) /\ IsDeep(top[w].obj)
        /\ graph[top[w].obj].sub \in Nodes /\ top[w].steps = 5
        /\ top[w].cs \in Built5 /\ heap[top[w].cs].base \in Built5
        /\ AsFirstCall(w)

\* After earlier calls, a call whose chain runs into a cycle without an
\* ICCBased array failed as a first call fails.
C19_WitnessCycle ==
    \E w \in workers :
        /\ Done(w) /\ ~top[w].fresh /\ top[w].k = "err" /\ top[w].err = "Cycle"
        /\ ~IccOnCycleFrom(top[w].obj) /\ \E x \in Nodes : cache[x] # NULL

====
